---- MODULE Spec2Model ----
(***************************************************************************)
(* cleanup-packer-aws-resources.py: one module load (the region list is    *)
(* fetched at import time), followed by one run of lambda_handler on the   *)
(* command line, or by any number of handler invocations under the         *)
(* serverless runtime.  The EC2 API is the environment: every describe_*   *)
(* call returns a nondeterministically chosen response, every terminate /  *)
(* delete call nondeterministically succeeds or raises.                    *)
(***************************************************************************)
EXTENDS Integers, Sequences, FiniteSets, TLC

\* ------------------------------------------------------------------ bounds
\* most instances one describe_instances response carries
MaxInst == 2
\* most key pairs / security groups one region holds
MaxNames == 2
\* most handler invocations the serverless runtime makes on one module load
MaxInvocations == 2

\* -------------------------------------------------------- program constants
max_age == 21600

PackerBuilder == "Packer Builder"

\* 'packer *' and 'packer_*', as sequences of characters
KeyNameFilter == <<"p", "a", "c", "k", "e", "r", " ", "*">>
GroupNameFilter == <<"p", "a", "c", "k", "e", "r", "_", "*">>

\* ------------------------------------------------------------- environment
\* describe_regions answers with distinct region names: the account has
\* no region enabled, one, or two
RegionLists == {<<>>, <<"us-east-1">>, <<"eu-west-1", "us-east-1">>}

\* a datetime: whole seconds since the epoch (UTC) and the microsecond field
Datetime(e, us) == [epoch |-> e, microsecond |-> us]

\* the wall clock read by datetime.now() at the start of an instance scan
Clock == {Datetime(max_age + 1, 500000)}

NameTag(v) == [Key |-> "Name", Value |-> v]
OtherTag == [Key |-> "env", Value |-> "ci"]
Groups == <<[GroupName |-> "packer_5f", GroupId |-> "sg-1"]>>

\* the instances EC2 may describe, without their InstanceId.  'Tags' is absent
\* on an untagged instance, 'KeyName' on one launched without a key pair.
InstanceShapes ==
    { [State |-> [Name |-> "running"], Tags |-> <<NameTag(PackerBuilder)>>,
       LaunchTime |-> Datetime(0, 500000), KeyName |-> "packer 5f", SecurityGroups |-> Groups],
      [State |-> [Name |-> "running"], Tags |-> <<NameTag(PackerBuilder)>>,
       LaunchTime |-> Datetime(1, 0), KeyName |-> "packer 5f", SecurityGroups |-> Groups],
      [State |-> [Name |-> "stopped"], Tags |-> <<NameTag(PackerBuilder)>>,
       LaunchTime |-> Datetime(0, 500000), KeyName |-> "packer 5f", SecurityGroups |-> Groups],
      [State |-> [Name |-> "running"], Tags |-> <<NameTag("web")>>,
       LaunchTime |-> Datetime(0, 500000), KeyName |-> "deploy-key", SecurityGroups |-> Groups],
      [State |-> [Name |-> "running"],
       LaunchTime |-> Datetime(0, 500000), KeyName |-> "deploy-key", SecurityGroups |-> Groups],
      [State |-> [Name |-> "running"], Tags |-> <<OtherTag, NameTag(PackerBuilder)>>,
       LaunchTime |-> Datetime(0, 500000), KeyName |-> "packer 5f", SecurityGroups |-> Groups],
      [State |-> [Name |-> "running"], Tags |-> <<NameTag(PackerBuilder)>>,
       LaunchTime |-> Datetime(0, 500000), SecurityGroups |-> Groups] }

\* instance ids are unique across the account: region and a serial number
InstanceId(region, k) == <<region, k>>

WithId(shape, region, k) ==
    [f \in DOMAIN shape \cup {"InstanceId"} |->
        IF f = "InstanceId" THEN InstanceId(region, k) ELSE shape[f]]

\* a describe_instances response of region: the instances of shapes, in order,
\* grouped into reservations that end after the positions in cuts (one
\* reservation for all of them, or one reservation each)
RECURSIVE Reservations(_, _, _, _)
Reservations(shapes, cuts, region, k) ==
    IF k > Len(shapes) THEN <<>>
    ELSE LET rest == Reservations(shapes, cuts, region, k + 1)
             inst == WithId(shapes[k], region, k)
         IN  IF k = Len(shapes) \/ k \in cuts \/ rest = <<>>
             THEN <<[Instances |-> <<inst>>]>> \o rest
             ELSE <<[Instances |-> <<inst>> \o Head(rest).Instances]>> \o Tail(rest)

InstanceResponses(region) ==
    { [Reservations |-> Reservations(shapes, cuts, region, 1)] :
        <<shapes, cuts>> \in
            UNION { [1..n -> InstanceShapes] \X {{}, 1..(n - 1)} : n \in 0..MaxInst } }

\* key-pair and security-group names, as sequences of characters
KeyNames ==
    { <<"p", "a", "c", "k", "e", "r", " ", "a", "1", "b", "2", "c", "3">>,
      <<"d", "e", "p", "l", "o", "y", "-", "k", "e", "y">>,
      <<"p", "a", "c", "k", "e", "r">>,
      <<"p", "a", "c", "k", "e", "r", " ">> }

GroupNames ==
    { <<"p", "a", "c", "k", "e", "r", "_", "5", "f">>,
      <<"d", "e", "f", "a", "u", "l", "t">>,
      <<"p", "a", "c", "k", "e", "r", " ", "5", "f">>,
      <<"p", "a", "c", "k", "e", "r", "_">> }

\* the resources of one kind a region holds: distinct names, in some order
NameLists(pool) ==
    { s \in UNION { [1..n -> pool] : n \in 0..MaxNames } :
        \A i, j \in 1..Len(s) : i # j => s[i] # s[j] }

\* the EC2 wildcard filter: '*' stands for zero or more characters
RECURSIVE FilterMatches(_, _)
FilterMatches(pattern, name) ==
    IF pattern = <<>> THEN name = <<>>
    ELSE IF Head(pattern) = "*"
         THEN FilterMatches(Tail(pattern), name)
              \/ (name # <<>> /\ FilterMatches(pattern, Tail(name)))
         ELSE /\ name # <<>>
              /\ Head(name) = Head(pattern)
              /\ FilterMatches(Tail(pattern), Tail(name))

SelectNames(names, pattern) == SelectSeq(names, LAMBDA n : FilterMatches(pattern, n))

describe_key_pairs(names) ==
    LET hit == SelectNames(names, KeyNameFilter)
    IN  [KeyPairs |-> [i \in 1..Len(hit) |-> [KeyName |-> hit[i]]]]

describe_security_groups(names) ==
    LET hit == SelectNames(names, GroupNameFilter)
    IN  [SecurityGroups |-> [i \in 1..Len(hit) |-> [GroupName |-> hit[i]]]]

\* ------------------------------------------------------------------- dicts
\* a Python dict, kept in insertion order as a sequence of key/value pairs
HasKey(d, k) == \E i \in 1..Len(d) : d[i].key = k

DictSet(d, k, v) ==
    IF HasKey(d, k)
    THEN [i \in 1..Len(d) |-> IF d[i].key = k THEN [key |-> k, value |-> v] ELSE d[i]]
    ELSE Append(d, [key |-> k, value |-> v])

\* ---------------------------------------------------------------- helpers
\* calendar.timegm(dt.utctimetuple()): the time tuple has no microseconds
dt2ts(dt) == dt.epoch

\* int(utc_now.strftime("%s"))
NowTs(now) == now.epoch

\* the loop that fills the module-level list regions
RegionNamesOf(awsregions) == [i \in 1..Len(awsregions) |-> awsregions[i].RegionName]

\* variant: every client is bound to the region of the module-level client
Ec2Client_Default(region) == [region_name |-> "us-west-1"]

\* boto3.client('ec2', region_name=region)
Ec2Client(region) == [region_name |-> region]

\* ------------------------------------------------------- instance scanner
\* for reservation in response['Reservations']: for instance in reservation['Instances']
RECURSIVE Flatten(_)
Flatten(reservations) ==
    IF reservations = <<>> THEN <<>>
    ELSE Head(reservations).Instances \o Flatten(Tail(reservations))

\* variant: the state test lets every instance through
IsRunning_AnyState(instance) == TRUE

IsRunning(instance) == instance.State.Name = "running"

\* the tag loop: the first tag whose key is Name decides, either way
RECURSIVE TagLoop(_)
TagLoop(tags) ==
    IF tags = <<>> THEN FALSE
    ELSE LET tag == Head(tags)
         IN  IF tag.Key = "Name" /\ tag.Value = PackerBuilder THEN TRUE
             ELSE IF tag.Key = "Name" THEN FALSE
             ELSE TagLoop(Tail(tags))

packerNameTagMatched(instance) ==
    IF "Tags" \in DOMAIN instance THEN TagLoop(instance.Tags) ELSE FALSE

OlderThan(utc_now_ts, launched_at, maximum_age) == (utc_now_ts - launched_at) > maximum_age

\* the dict literal appended to regionoutput; instance['KeyName'] raises
\* KeyError when the instance has no key pair
RaisesKeyError(instance) == "KeyName" \notin DOMAIN instance

ZombieInstance(region, instance) ==
    [region |-> region,
     instance_id |-> instance.InstanceId,
     keyname |-> instance.KeyName,
     security_groups |-> instance.SecurityGroups]

\* the body of the instance loop, from instance i on; raised tells that an
\* exception left the loop
RECURSIVE InstanceLoop(_, _, _, _, _, _)
InstanceLoop(instances, i, region, utc_now_ts, maximum_age, regionoutput) ==
    IF i > Len(instances) THEN [raised |-> FALSE, regionoutput |-> regionoutput]
    ELSE LET instance == instances[i]
             skip == InstanceLoop(instances, i + 1, region, utc_now_ts, maximum_age, regionoutput)
         IN  IF ~IsRunning(instance) THEN skip
             ELSE IF ~packerNameTagMatched(instance) THEN skip
             ELSE IF OlderThan(utc_now_ts, dt2ts(instance.LaunchTime), maximum_age)
                  THEN IF RaisesKeyError(instance)
                       THEN [raised |-> TRUE, regionoutput |-> regionoutput]
                       ELSE InstanceLoop(instances, i + 1, region, utc_now_ts, maximum_age,
                                         Append(regionoutput, ZombieInstance(region, instance)))
             ELSE skip

ScanRegionInstances(region, response, now, maximum_age) ==
    InstanceLoop(Flatten(response.Reservations), 1, region, NowTs(now), maximum_age, <<>>)

\* for pair in response['KeyPairs']: regionoutput.append(pair['KeyName'])
KeyPairNames(response) == [i \in 1..Len(response.KeyPairs) |-> response.KeyPairs[i].KeyName]

\* for pair in response['SecurityGroups']: regionoutput.append(pair['GroupName'])
SecurityGroupNames(response) ==
    [i \in 1..Len(response.SecurityGroups) |-> response.SecurityGroups[i].GroupName]

\* ---------------------------------------------------------- orchestrator
\* instance_ids of one region's zombies
InstanceIds(instances) == [i \in 1..Len(instances) |-> instances[i].instance_id]

\* variant: no region is skipped
SkipsRegion_Never(items) == FALSE

\* if len(...) == 0: ... continue
SkipsRegion(items) == Len(items) = 0

\* try/except around terminate_instances: the bare except swallows the
\* error, the region loop goes on either way
AfterTerminateCall(ok) == "terminate"

\* variant: no try/except, the error of delete_key_pair leaves the handler
AfterDeleteKeyCall_Propagates(ok) == IF ok THEN "delete_keys" ELSE "raised"

\* try/except around delete_key_pair
AfterDeleteKeyCall(ok) == "delete_keys"

\* variant: no try/except, the error of delete_security_group leaves the handler
AfterDeleteGroupCall_Propagates(ok) == IF ok THEN "delete_security_groups" ELSE "raised"

\* try/except around delete_security_group
AfterDeleteGroupCall(ok) == "delete_security_groups"

\* variant: a failed delete is tried again
NextItem_Retry(itemIdx, ok) == IF ok THEN itemIdx + 1 ELSE itemIdx

\* the position in the item loop after a delete call: always the next item
NextItem(itemIdx, ok) == itemIdx + 1

\* variant: the handler goes from the instances straight to the groups
AfterInstancePass_SkipsKeys == "scan_security_groups"

\* what follows the terminate loop, and what follows the key loop
AfterInstancePass == "scan_keys"

AfterKeyPass == "scan_security_groups"

PassOf(p) ==
    IF p = "scan_keys" THEN "keys"
    ELSE IF p = "scan_security_groups" THEN "security_groups"
    ELSE "instances"

\* ------------------------------------------------------------------- state
VARIABLES
    pc,                      \* where the process is
    aws_env,                 \* is_aws_env(): the serverless markers are set
    awsregions,              \* the last describe_regions answer (deleted by del)
    regions,                 \* module-level list of region names
    describe_regions_calls,  \* describe_regions calls made so far
    invocations,             \* lambda_handler invocations started so far
    utc_now,                 \* the instance scanner's utc_now
    scanIdx,                 \* position of a scanner's region loop in regions
    region,                  \* the scanner's loop variable
    response,                \* the scanner's last describe_* response
    output,                  \* the scanner's output dict
    zombies,                 \* the handler's zombies dict
    loopIdx,                 \* position of the handler's loop in zombies.items()
    itemIdx,                 \* position of the inner key / group loop
    calls,                   \* terminate / delete calls made since zombies was bound
    failed,                  \* the operations that raised during this invocation
    passes                   \* the passes this invocation has started, in order

vars == <<pc, aws_env, awsregions, regions, describe_regions_calls, invocations, utc_now,
          scanIdx, region, response, output, zombies, loopIdx, itemIdx, calls, failed, passes>>

module == <<aws_env, awsregions, regions, describe_regions_calls>>

NoRegion == "-"
NoResponse == [Reservations |-> <<>>]
NoTime == Datetime(0, 0)

Init ==
    /\ pc = "import"
    /\ aws_env \in BOOLEAN
    /\ awsregions = <<>>
    /\ regions = <<>>
    /\ describe_regions_calls = 0
    /\ invocations = 0
    /\ utc_now = NoTime
    /\ scanIdx = 0
    /\ region = NoRegion
    /\ response = NoResponse
    /\ output = <<>>
    /\ zombies = <<>>
    /\ loopIdx = 0
    /\ itemIdx = 0
    /\ calls = <<>>
    /\ failed = {}
    /\ passes = <<>>

\* ------------------------------------------------------------- module load
\* describe_regions answers; the module-level loop fills regions
LoadRegions ==
    /\ pc = "import"
    /\ \E names \in RegionLists :
        /\ awsregions' = [i \in 1..Len(names) |-> [RegionName |-> names[i]]]
        /\ regions' = RegionNamesOf(awsregions')
    /\ describe_regions_calls' = describe_regions_calls + 1
    /\ pc' = IF aws_env THEN "idle" ELSE "main"
    /\ UNCHANGED <<aws_env, invocations, utc_now, scanIdx, region, response, output,
                   zombies, loopIdx, itemIdx, calls, failed, passes>>

\* describe_regions raises: the import fails, nothing else of the module runs
LoadRegionsFails ==
    /\ pc = "import"
    /\ describe_regions_calls' = describe_regions_calls + 1
    /\ pc' = "import_error"
    /\ UNCHANGED <<aws_env, awsregions, regions, invocations, utc_now, scanIdx, region,
                   response, output, zombies, loopIdx, itemIdx, calls, failed, passes>>

\* lambda_handler is entered and calls get_zombie_packer_instances
EnterHandler ==
    /\ invocations' = invocations + 1
    /\ utc_now' \in Clock
    /\ scanIdx' = 1
    /\ region' = NoRegion
    /\ response' = NoResponse
    /\ output' = <<>>
    /\ zombies' = <<>>
    /\ loopIdx' = 0
    /\ itemIdx' = 0
    /\ calls' = <<>>
    /\ failed' = {}
    /\ passes' = <<"instances">>
    /\ pc' = "scan_instances"
    /\ UNCHANGED module

\* if not is_aws_env(): lambda_handler({}, {})
CliInvoke ==
    /\ pc = "main"
    /\ EnterHandler

\* variant: the handler fetches the region list itself, on every invocation
LambdaInvoke_Reloads ==
    /\ aws_env
    /\ pc \in {"idle", "returned", "raised"}
    /\ invocations < MaxInvocations
    /\ \E names \in RegionLists :
        /\ awsregions' = [i \in 1..Len(names) |-> [RegionName |-> names[i]]]
        /\ regions' = RegionNamesOf(awsregions')
    /\ describe_regions_calls' = describe_regions_calls + 1
    /\ invocations' = invocations + 1
    /\ utc_now' \in Clock
    /\ scanIdx' = 1
    /\ region' = NoRegion
    /\ response' = NoResponse
    /\ output' = <<>>
    /\ zombies' = <<>>
    /\ loopIdx' = 0
    /\ itemIdx' = 0
    /\ calls' = <<>>
    /\ failed' = {}
    /\ passes' = <<"instances">>
    /\ pc' = "scan_instances"
    /\ UNCHANGED aws_env

\* the serverless runtime calls the handler of the loaded module
LambdaInvoke ==
    /\ aws_env
    /\ pc \in {"idle", "returned", "raised"}
    /\ invocations < MaxInvocations
    /\ EnterHandler

\* ---------------------------------------------------- handler: instances
\* one iteration of the scanner's region loop: describe_instances through a
\* client of the region, then the reservation / instance loops
ScanInstancesRegion ==
    /\ pc = "scan_instances"
    /\ scanIdx <= Len(regions)
    /\ region' = regions[scanIdx]
    /\ \E resp \in InstanceResponses(Ec2Client(regions[scanIdx]).region_name) :
        LET res == ScanRegionInstances(regions[scanIdx], resp, utc_now, max_age)
        IN  /\ response' = resp
            /\ IF res.raised
               THEN /\ pc' = "raised"
                    /\ UNCHANGED <<output, scanIdx>>
               ELSE /\ output' = DictSet(output, regions[scanIdx], res.regionoutput)
                    /\ scanIdx' = scanIdx + 1
                    /\ pc' = pc
    /\ UNCHANGED <<module, invocations, utc_now, zombies, loopIdx, itemIdx, calls,
                   failed, passes>>

\* return output; zombies = ...
ScanInstancesReturn ==
    /\ pc = "scan_instances"
    /\ scanIdx > Len(regions)
    /\ zombies' = output
    /\ output' = <<>>
    /\ region' = NoRegion
    /\ response' = NoResponse
    /\ calls' = <<>>
    /\ loopIdx' = 1
    /\ pc' = "terminate"
    /\ UNCHANGED <<module, invocations, utc_now, scanIdx, itemIdx, failed, passes>>

\* a region without zombie instances: continue
TerminateSkip ==
    /\ pc = "terminate"
    /\ loopIdx <= Len(zombies)
    /\ SkipsRegion(zombies[loopIdx].value)
    /\ loopIdx' = loopIdx + 1
    /\ UNCHANGED <<module, pc, invocations, utc_now, scanIdx, region, response, output,
                   zombies, itemIdx, calls, failed, passes>>

\* one batched terminate_instances call, which returns or raises
TerminateCall ==
    /\ pc = "terminate"
    /\ loopIdx <= Len(zombies)
    /\ ~SkipsRegion(zombies[loopIdx].value)
    /\ \E ok \in BOOLEAN :
        /\ calls' = Append(calls, [op |-> "terminate_instances",
                                   client |-> Ec2Client(zombies[loopIdx].key),
                                   arg |-> InstanceIds(zombies[loopIdx].value),
                                   ok |-> ok])
        /\ failed' = IF ok THEN failed ELSE failed \cup {"terminate_instances"}
        /\ pc' = AfterTerminateCall(ok)
    /\ loopIdx' = loopIdx + 1
    /\ UNCHANGED <<module, invocations, utc_now, scanIdx, region, response, output,
                   zombies, itemIdx, passes>>

\* the terminate loop is over: get_zombie_packer_keys is called
TerminateDone ==
    /\ pc = "terminate"
    /\ loopIdx > Len(zombies)
    /\ pc' = AfterInstancePass
    /\ passes' = Append(passes, PassOf(pc'))
    /\ scanIdx' = 1
    /\ output' = <<>>
    /\ UNCHANGED <<module, invocations, utc_now, region, response, zombies, loopIdx,
                   itemIdx, calls, failed>>

\* --------------------------------------------------------- handler: keys
ScanKeysRegion ==
    /\ pc = "scan_keys"
    /\ scanIdx <= Len(regions)
    /\ region' = regions[scanIdx]
    /\ \E names \in NameLists(KeyNames) :
        /\ response' = describe_key_pairs(names)
        /\ output' = DictSet(output, regions[scanIdx], KeyPairNames(response'))
    /\ scanIdx' = scanIdx + 1
    /\ UNCHANGED <<module, pc, invocations, utc_now, zombies, loopIdx, itemIdx, calls,
                   failed, passes>>

ScanKeysReturn ==
    /\ pc = "scan_keys"
    /\ scanIdx > Len(regions)
    /\ zombies' = output
    /\ output' = <<>>
    /\ region' = NoRegion
    /\ response' = NoResponse
    /\ calls' = <<>>
    /\ loopIdx' = 1
    /\ itemIdx' = 1
    /\ pc' = "delete_keys"
    /\ UNCHANGED <<module, invocations, utc_now, scanIdx, failed, passes>>

DeleteKeysSkip ==
    /\ pc = "delete_keys"
    /\ loopIdx <= Len(zombies)
    /\ SkipsRegion(zombies[loopIdx].value)
    /\ loopIdx' = loopIdx + 1
    /\ UNCHANGED <<module, pc, invocations, utc_now, scanIdx, region, response, output,
                   zombies, itemIdx, calls, failed, passes>>

\* one delete_key_pair call, which returns or raises; after the last key of
\* the region the outer loop moves on
DeleteKeyCall ==
    /\ pc = "delete_keys"
    /\ loopIdx <= Len(zombies)
    /\ ~SkipsRegion(zombies[loopIdx].value)
    /\ \E ok \in BOOLEAN :
        /\ calls' = Append(calls, [op |-> "delete_key_pair",
                                   client |-> Ec2Client(zombies[loopIdx].key),
                                   arg |-> zombies[loopIdx].value[itemIdx],
                                   ok |-> ok])
        /\ failed' = IF ok THEN failed ELSE failed \cup {"delete_key_pair"}
        /\ pc' = AfterDeleteKeyCall(ok)
        /\ IF NextItem(itemIdx, ok) > Len(zombies[loopIdx].value)
           THEN loopIdx' = loopIdx + 1 /\ itemIdx' = 1
           ELSE loopIdx' = loopIdx /\ itemIdx' = NextItem(itemIdx, ok)
    /\ UNCHANGED <<module, invocations, utc_now, scanIdx, region, response, output,
                   zombies, passes>>

\* the key loop is over: get_zombie_packer_security_groups is called
DeleteKeysDone ==
    /\ pc = "delete_keys"
    /\ loopIdx > Len(zombies)
    /\ pc' = AfterKeyPass
    /\ passes' = Append(passes, PassOf(pc'))
    /\ scanIdx' = 1
    /\ output' = <<>>
    /\ UNCHANGED <<module, invocations, utc_now, region, response, zombies, loopIdx,
                   itemIdx, calls, failed>>

\* ------------------------------------------------ handler: security groups
ScanGroupsRegion ==
    /\ pc = "scan_security_groups"
    /\ scanIdx <= Len(regions)
    /\ region' = regions[scanIdx]
    /\ \E names \in NameLists(GroupNames) :
        /\ response' = describe_security_groups(names)
        /\ output' = DictSet(output, regions[scanIdx], SecurityGroupNames(response'))
    /\ scanIdx' = scanIdx + 1
    /\ UNCHANGED <<module, pc, invocations, utc_now, zombies, loopIdx, itemIdx, calls,
                   failed, passes>>

ScanGroupsReturn ==
    /\ pc = "scan_security_groups"
    /\ scanIdx > Len(regions)
    /\ zombies' = output
    /\ output' = <<>>
    /\ region' = NoRegion
    /\ response' = NoResponse
    /\ calls' = <<>>
    /\ loopIdx' = 1
    /\ itemIdx' = 1
    /\ pc' = "delete_security_groups"
    /\ UNCHANGED <<module, invocations, utc_now, scanIdx, failed, passes>>

DeleteGroupsSkip ==
    /\ pc = "delete_security_groups"
    /\ loopIdx <= Len(zombies)
    /\ SkipsRegion(zombies[loopIdx].value)
    /\ loopIdx' = loopIdx + 1
    /\ UNCHANGED <<module, pc, invocations, utc_now, scanIdx, region, response, output,
                   zombies, itemIdx, calls, failed, passes>>

DeleteGroupCall ==
    /\ pc = "delete_security_groups"
    /\ loopIdx <= Len(zombies)
    /\ ~SkipsRegion(zombies[loopIdx].value)
    /\ \E ok \in BOOLEAN :
        /\ calls' = Append(calls, [op |-> "delete_security_group",
                                   client |-> Ec2Client(zombies[loopIdx].key),
                                   arg |-> zombies[loopIdx].value[itemIdx],
                                   ok |-> ok])
        /\ failed' = IF ok THEN failed ELSE failed \cup {"delete_security_group"}
        /\ pc' = AfterDeleteGroupCall(ok)
        /\ IF NextItem(itemIdx, ok) > Len(zombies[loopIdx].value)
           THEN loopIdx' = loopIdx + 1 /\ itemIdx' = 1
           ELSE loopIdx' = loopIdx /\ itemIdx' = NextItem(itemIdx, ok)
    /\ UNCHANGED <<module, invocations, utc_now, scanIdx, region, response, output,
                   zombies, passes>>

\* the group loop is over: lambda_handler returns
HandlerReturn ==
    /\ pc = "delete_security_groups"
    /\ loopIdx > Len(zombies)
    /\ pc' = "returned"
    /\ UNCHANGED <<module, invocations, utc_now, scanIdx, region, response, output,
                   zombies, loopIdx, itemIdx, calls, failed, passes>>

\* ----------------------------------------------------------- specification
\* the steps of the three passes once the instance scanner has returned
PassStep ==
    \/ TerminateSkip \/ TerminateCall \/ TerminateDone
    \/ ScanKeysRegion \/ ScanKeysReturn
    \/ DeleteKeysSkip \/ DeleteKeyCall \/ DeleteKeysDone
    \/ ScanGroupsRegion \/ ScanGroupsReturn
    \/ DeleteGroupsSkip \/ DeleteGroupCall \/ HandlerReturn

Next ==
    \/ LoadRegions
    \/ LoadRegionsFails
    \/ CliInvoke
    \/ LambdaInvoke
    \/ ScanInstancesRegion
    \/ ScanInstancesReturn
    \/ PassStep

Spec == Init /\ [][Next]_vars

\* the process is sequential and every API call returns or raises: once the
\* handler is in its passes it keeps taking steps.  Nothing obliges the
\* runtime to invoke the handler.
FairSpec == Spec /\ WF_vars(PassStep)

\* ------------------------------------------------------------- properties
\* what the properties say of an instance, read off the describe_instances
\* answer itself
StateIsRunning(instance) == instance.State.Name = "running"

HasPackerNameTag(instance) ==
    /\ "Tags" \in DOMAIN instance
    /\ \E i \in 1..Len(instance.Tags) :
        instance.Tags[i].Key = "Name" /\ instance.Tags[i].Value = "Packer Builder"

\* age in whole seconds: the second of now minus the second of the launch
AgeOf(instance) == utc_now.epoch - instance.LaunchTime.epoch

\* the instances of the answer the scanner got last, in the order returned
Returned ==
    LET rs == response.Reservations
        RECURSIVE All(_)
        All(k) == IF k > Len(rs) THEN <<>> ELSE rs[k].Instances \o All(k + 1)
    IN  All(1)

\* the list the scanner has recorded for region r so far
OutputOf(r) ==
    IF \E i \in 1..Len(output) : output[i].key = r
    THEN output[CHOOSE i \in 1..Len(output) : output[i].key = r].value
    ELSE <<>>

FlaggedIds(r) == {OutputOf(r)[i].instance_id : i \in 1..Len(OutputOf(r))}

\* the instance scanner has recorded the output of the region in region
InstanceScanned == pc = "scan_instances" /\ region # NoRegion

\* C1: the instance scanner records no instance that is not running, and none
\* without a tag Name = "Packer Builder": every record of the region just
\* scanned is the record of a returned instance that is running and so tagged
C1_ScannerSound ==
    InstanceScanned =>
        /\ \A i \in 1..Len(Returned) :
            (~StateIsRunning(Returned[i]) \/ ~HasPackerNameTag(Returned[i]))
                => Returned[i].InstanceId \notin FlaggedIds(region)
        /\ \A id \in FlaggedIds(region) :
            \E i \in 1..Len(Returned) :
                /\ Returned[i].InstanceId = id
                /\ StateIsRunning(Returned[i])
                /\ HasPackerNameTag(Returned[i])

\* a scan has recorded an old zombie next to an old instance that is stopped,
\* named otherwise, or untagged
C1_Witness ==
    /\ InstanceScanned
    /\ FlaggedIds(region) # {}
    /\ \E i \in 1..Len(Returned) :
        /\ AgeOf(Returned[i]) > max_age
        /\ ~StateIsRunning(Returned[i]) \/ ~HasPackerNameTag(Returned[i])

\* the returned instances the scanner is to flag, in the order returned
Expected ==
    SelectSeq(Returned, LAMBDA inst :
        StateIsRunning(inst) /\ HasPackerNameTag(inst) /\ AgeOf(inst) > max_age)

\* C2: once the scanner is through with a region's answer, every returned
\* instance that is running, tagged Name = "Packer Builder" and older than
\* the threshold is in the region's list exactly once, in the order returned,
\* and in no other region's list
C2_ScannerComplete ==
    (pc \in {"scan_instances", "raised"} /\ region # NoRegion) =>
        /\ [i \in 1..Len(OutputOf(region)) |-> OutputOf(region)[i].instance_id]
             = [i \in 1..Len(Expected) |-> Expected[i].InstanceId]
        /\ \A k \in 1..Len(output) : \A i \in 1..Len(Expected) :
            output[k].key # region => Expected[i].InstanceId \notin FlaggedIds(output[k].key)

\* C3: once the scanner is through with a region's answer, a running
\* "Packer Builder" instance whose age in whole seconds is max_age is not
\* flagged, and one whose age is max_age + 1 is flagged
C3_AgeBoundary ==
    (pc \in {"scan_instances", "raised"} /\ region # NoRegion) =>
        \A i \in 1..Len(Returned) :
            (StateIsRunning(Returned[i]) /\ HasPackerNameTag(Returned[i])) =>
                /\ AgeOf(Returned[i]) = max_age
                    => Returned[i].InstanceId \notin FlaggedIds(region)
                /\ AgeOf(Returned[i]) = max_age + 1
                    => Returned[i].InstanceId \in FlaggedIds(region)

\* the comparison itself is strict: in every list the scanner records, the
\* builder of age max_age is absent and the builder of age max_age + 1 present
AgeBoundaryOfRecordedLists == InstanceScanned => C3_AgeBoundary

\* the calls made since zombies was bound: the region of the client and the
\* argument of each
CallTargets ==
    [i \in 1..Len(calls) |-> [region |-> calls[i].client.region_name, arg |-> calls[i].arg]]

\* one terminate call for each region of zs that has zombies, with their ids
TerminateTargets(zs) ==
    LET RECURSIVE From(_)
        From(k) ==
            IF k > Len(zs) THEN <<>>
            ELSE IF Len(zs[k].value) = 0 THEN From(k + 1)
            ELSE <<[region |-> zs[k].key,
                    arg |-> [i \in 1..Len(zs[k].value) |-> zs[k].value[i].instance_id]]>>
                 \o From(k + 1)
    IN  From(1)

\* one delete call for each name of each region of zs
DeleteTargets(zs) ==
    LET RECURSIVE From(_)
        From(k) ==
            IF k > Len(zs) THEN <<>>
            ELSE [i \in 1..Len(zs[k].value) |-> [region |-> zs[k].key, arg |-> zs[k].value[i]]]
                 \o From(k + 1)
    IN  From(1)

\* the calls the pass in hand owes to zombies
PassTargets ==
    IF calls # <<>> /\ calls[1].op = "terminate_instances"
    THEN TerminateTargets(zombies)
    ELSE DeleteTargets(zombies)

IsPrefix(s, t) == Len(s) <= Len(t) /\ \A i \in 1..Len(s) : s[i] = t[i]

InLoop == pc \in {"terminate", "delete_keys", "delete_security_groups"}

\* C4: a terminate or delete call that raised skips nothing: the calls of the
\* pass stay, in order, the calls owed to the flagged items, and once the
\* pass's loop is left every flagged item of every region has had its call
C4_FailureIsolated ==
    \A i \in 1..Len(calls) :
        ~calls[i].ok =>
            /\ IsPrefix(CallTargets, PassTargets)
            /\ ~InLoop => CallTargets = PassTargets

\* a delete call raised, and the next item of the same region and an item of
\* the next region were attempted after it
C4_Witness ==
    \E i, j, k \in 1..Len(calls) :
        /\ i < j /\ j < k
        /\ ~calls[i].ok
        /\ calls[j].client = calls[i].client
        /\ calls[k].client # calls[i].client

AllOps == {"terminate_instances", "delete_key_pair", "delete_security_group"}

\* C5: no error of a terminate or delete call leaves the handler, and an
\* invocation that has begun its passes reaches its normal return, however
\* many and whichever of its terminate and delete calls raise
C5_RunCompletes ==
    /\ [](pc = "raised" => failed = {})
    /\ (pc = "terminate") ~> (pc = "returned")

\* an invocation has returned although a call of each kind raised
C5_Witness == pc = "returned" /\ failed = AllOps

\* the instance records of dict d carry the key they are stored under, and
\* the instance of each was returned by that region
CarryRegion(d) ==
    \A k \in 1..Len(d) : \A i \in 1..Len(d[k].value) :
        /\ d[k].value[i].region = d[k].key
        /\ d[k].value[i].instance_id[1] = d[k].key

TerminateCallsFor(r) ==
    {c \in 1..Len(calls) :
        calls[c].op = "terminate_instances" /\ calls[c].client.region_name = r}

\* C7: a region with zombie instances gets one terminate_instances call, with
\* the ids flagged for it and no other; a region with nothing flagged gets no
\* terminate or delete call
C7_OneBatchPerRegion ==
    /\ pc \in {"terminate", "scan_keys"} =>
        \A k \in 1..Len(zombies) :
            LET ids == {zombies[k].value[i].instance_id : i \in 1..Len(zombies[k].value)}
                made == TerminateCallsFor(zombies[k].key)
            IN  /\ (k < loopIdx /\ ids # {}) =>
                    /\ Cardinality(made) = 1
                    /\ \A c \in made :
                        /\ {calls[c].arg[i] : i \in 1..Len(calls[c].arg)} = ids
                        /\ Len(calls[c].arg) = Cardinality(ids)
                /\ (k >= loopIdx \/ ids = {}) => made = {}
    /\ \A c \in 1..Len(calls) : \A k \in 1..Len(zombies) :
        zombies[k].key = calls[c].client.region_name => Len(zombies[k].value) > 0

\* the instance pass is over: the region with two zombies had one call for
\* both, the region with none had no call
C7_Witness ==
    /\ pc = "scan_keys"
    /\ Len(calls) = 1
    /\ Len(calls[1].arg) = 2
    /\ \E k \in 1..Len(zombies) : Len(zombies[k].value) = 0

\* the delete calls made through a client of region r for name n
DeleteCallsFor(r, n) ==
    {c \in 1..Len(calls) : calls[c].client.region_name = r /\ calls[c].arg = n}

\* the names flagged in region r
FlaggedNames(r) ==
    UNION {{zombies[k].value[i] : i \in 1..Len(zombies[k].value)} :
            k \in {j \in 1..Len(zombies) : zombies[j].key = r}}

StartsWith(name, prefix) ==
    Len(name) >= Len(prefix) /\ SubSeq(name, 1, Len(prefix)) = prefix

PassOrder == <<"instances", "keys", "security_groups">>

\* C9: the passes start in the order instances, keys, security groups; the
\* key scan runs only when every terminate call owed has been made, the group
\* scan only when every key delete owed has been made; and an invocation that
\* has left its loops after a call raised has returned with all three passes
C9_PassOrder ==
    /\ IsPrefix(passes, PassOrder)
    /\ pc = "scan_keys" =>
        /\ passes = SubSeq(PassOrder, 1, 2)
        /\ CallTargets = TerminateTargets(zombies)
        /\ \A c \in 1..Len(calls) : calls[c].op = "terminate_instances"
    /\ pc = "scan_security_groups" =>
        /\ passes = PassOrder
        /\ CallTargets = DeleteTargets(zombies)
        /\ \A c \in 1..Len(calls) : calls[c].op = "delete_key_pair"
    /\ pc = "returned" => passes = PassOrder
    /\ (failed # {} /\ ~InLoop) => pc \in {"scan_keys", "scan_security_groups", "returned"}

\* the key scan is under way after the terminate call for a batch raised
C9_Witness ==
    /\ pc = "scan_keys"
    /\ scanIdx > 1
    /\ \E c \in 1..Len(calls) : ~calls[c].ok /\ Len(calls[c].arg) >= 2

ListedNames == [i \in 1..Len(awsregions) |-> awsregions[i].RegionName]

\* the regions the scanner in hand has gone through
ScannedRegions == [i \in 1..Len(output) |-> output[i].key]

\* C10 as stated: every handler invocation has its own describe_regions call
C10_OncePerRun ==
    /\ invocations >= 1 => describe_regions_calls = invocations
    /\ pc = "import_error" => invocations = 0

\* C10: describe_regions is called once per module load; its answer is the
\* regions every invocation of that load scans, in that order; and when the
\* call raises no invocation starts, so nothing is scanned or deleted
C10_OncePerLoad ==
    /\ describe_regions_calls <= 1
    /\ invocations >= 1 =>
        /\ describe_regions_calls = 1
        /\ regions = ListedNames
        /\ IsPrefix(ScannedRegions, ListedNames)
        /\ pc \notin {"scan_instances", "scan_keys", "scan_security_groups", "raised"} =>
            [i \in 1..Len(zombies) |-> zombies[i].key] = ListedNames
    /\ pc = "import_error" =>
        /\ invocations = 0
        /\ region = NoRegion
        /\ calls = <<>>

\* the second invocation of one load scans the listed regions, and
\* describe_regions has been called once
C10_Witness ==
    /\ invocations = 2
    /\ describe_regions_calls = 1
    /\ pc = "scan_instances"
    /\ Len(regions) = 2
    /\ ScannedRegions = ListedNames

====
